---- MODULE Spec2Model ----
(***************************************************************************)
(* A model of the server_fn error-and-response protocol:                   *)
(*   server_fn/src/error.rs            the error taxonomy, its wire codec, *)
(*                                     the URL error channel and the       *)
(*                                     error-wrapping entry point          *)
(*   server_fn/src/response/http.rs    the outbound (server) response      *)
(*   server_fn/src/response/reqwest.rs the inbound (client) response       *)
(*                                                                         *)
(* A Rust string is a sequence of one-character strings, so that           *)
(* split_once, Debug quoting, percent-encoding and header validation act   *)
(* on characters as the code does.                                         *)
(***************************************************************************)
EXTENDS Integers, Sequences, FiniteSets, TLC

VARIABLES
    \* the codec: what was last done, the error encoded, the text, the error decoded
    cPhase, cErr, cData, cOut,
    \* the URL channel: what was last done, the inputs of to_url, the navigation
    \* string strip_error_info rewrites, and that string before the rewrite
    uPhase, uBase, uPath, uErr, navUrl, uPrev,
    \* the outbound response: what was last done, the response, the response before
    \* the last redirect, the path or target last given, the error last given
    hPhase, response, hPrev, hArg, hErr,
    \* the inbound response: whether the caller still owns it, its body as the
    \* chunks the transport will yield, whether the transport fails and before which
    \* chunk, the result of the consuming call, the chunks a stream has yielded, and
    \* how many consuming calls were made and how many of them delivered the body
    rHeld, rBody, rFailAt, rResult, rYielded, rCalls, rDelivered,
    \* the error-wrapping entry point: the value given and what came back
    wPhase, wIn, wOut

codecVars == <<cPhase, cErr, cData, cOut>>
urlVars == <<uPhase, uBase, uPath, uErr, navUrl, uPrev>>
httpVars == <<hPhase, response, hPrev, hArg, hErr>>
clientVars == <<rHeld, rBody, rFailAt, rResult, rYielded, rCalls, rDelivered>>
wrapVars == <<wPhase, wIn, wOut>>

\* what an operation of one component leaves alone: the other components
notCodec == <<urlVars, httpVars, clientVars, wrapVars>>
notUrl == <<codecVars, httpVars, clientVars, wrapVars>>
notHttp == <<codecVars, urlVars, clientVars, wrapVars>>
notClient == <<codecVars, urlVars, httpVars, wrapVars>>
notWrap == <<codecVars, urlVars, httpVars, clientVars>>
vars ==
    <<cPhase, cErr, cData, cOut, uPhase, uBase, uPath, uErr, navUrl, uPrev,
      hPhase, response, hPrev, hArg, hErr,
      rHeld, rBody, rFailAt, rResult, rYielded, rCalls, rDelivered,
      wPhase, wIn, wOut>>

----------------------------------------------------------------------------
(* Bounds of the model *)

\* longest payload / free text drawn as an input
MaxLen == 2

\* most '&'-separated segments in the query of a navigation string
MaxPairs == 4

\* most '&'-separated segments in the query of a base URL given to to_url
MaxBasePairs == 2

\* most chunks in the body of an inbound response
MaxChunks == 3

----------------------------------------------------------------------------
(* Strings *)

\* the characters payloads and free text are drawn from: a plain letter, the
\* codec's delimiter, and a character Debug formatting escapes
PayloadChars == {"a", "|", "\""}

StringsUpTo(chars, n) == UNION {[1..k -> chars] : k \in 0..n}

Payloads == StringsUpTo(PayloadChars, MaxLen)

\* index of the first occurrence of c in s, 0 when there is none
FirstIndex(s, c) ==
    IF \E i \in 1..Len(s) : s[i] = c
    THEN CHOOSE i \in 1..Len(s) : s[i] = c /\ \A j \in 1..(i - 1) : s[j] # c
    ELSE 0

\* index of the last occurrence of c in s, 0 when there is none
LastIndex(s, c) ==
    IF \E i \in 1..Len(s) : s[i] = c
    THEN CHOOSE i \in 1..Len(s) : s[i] = c /\ \A j \in (i + 1)..Len(s) : s[j] # c
    ELSE 0

RECURSIVE Concat(_)
\* the concatenation of a sequence of strings
Concat(ss) == IF ss = <<>> THEN <<>> ELSE Head(ss) \o Concat(Tail(ss))

\* char::escape_debug as str's Debug uses it, on the characters of the model
EscapeDebug(c) ==
    CASE c = "\"" -> <<"\\", "\"">>
      [] c = "\\" -> <<"\\", "\\">>
      [] c = "\n" -> <<"\\", "n">>
      [] c = "\t" -> <<"\\", "t">>
      [] OTHER -> <<c>>

\* format!("{s:?}") of a str: quoted, with its characters escaped
DebugStr(s) == <<"\"">> \o Concat([i \in 1..Len(s) |-> EscapeDebug(s[i])]) \o <<"\"">>

----------------------------------------------------------------------------
(* The error taxonomy: enum ServerFnErrorErr *)

\* the variants the enum declares
Variants ==
    {"Registration", "Request", "Deserialization", "Serialization", "Args",
     "MissingArg", "Response"}

Err(k, p) == [kind |-> k, payload |-> p]

NoError == Err("None", <<>>)

\* every value of the enum with a payload of the model
TaxonomyErrors == {Err(k, p) : k \in Variants, p \in Payloads}

\* the eight tags the protocol's documentation lists
DocumentedTags == Variants \cup {"ServerError"}

\* the text of a variant's name
TagText(k) ==
    CASE k = "Registration" -> <<"R", "e", "g", "i", "s", "t", "r", "a", "t", "i", "o", "n">>
      [] k = "Request" -> <<"R", "e", "q", "u", "e", "s", "t">>
      [] k = "Response" -> <<"R", "e", "s", "p", "o", "n", "s", "e">>
      [] k = "ServerError" -> <<"S", "e", "r", "v", "e", "r", "E", "r", "r", "o", "r">>
      [] k = "Deserialization" ->
            <<"D", "e", "s", "e", "r", "i", "a", "l", "i", "z", "a", "t", "i", "o", "n">>
      [] k = "Serialization" ->
            <<"S", "e", "r", "i", "a", "l", "i", "z", "a", "t", "i", "o", "n">>
      [] k = "Args" -> <<"A", "r", "g", "s">>
      [] k = "MissingArg" -> <<"M", "i", "s", "s", "i", "n", "g", "A", "r", "g">>

\* the #[error("...")] text before {0} of each variant
DisplayPrefix(k) ==
    CASE k = "Registration" ->
            <<"e", "r", "r", "o", "r", " ", "w", "h", "i", "l", "e", " ", "t", "r", "y",
              "i", "n", "g", " ", "t", "o", " ", "r", "e", "g", "i", "s", "t", "e", "r",
              " ", "t", "h", "e", " ", "s", "e", "r", "v", "e", "r", " ", "f", "u", "n",
              "c", "t", "i", "o", "n", ":", " ">>
      [] k = "Request" ->
            <<"e", "r", "r", "o", "r", " ", "r", "e", "a", "c", "h", "i", "n", "g", " ",
              "s", "e", "r", "v", "e", "r", " ", "t", "o", " ", "c", "a", "l", "l", " ",
              "s", "e", "r", "v", "e", "r", " ", "f", "u", "n", "c", "t", "i", "o", "n",
              ":", " ">>
      [] k = "Deserialization" ->
            <<"e", "r", "r", "o", "r", " ", "d", "e", "s", "e", "r", "i", "a", "l", "i",
              "z", "i", "n", "g", " ", "s", "e", "r", "v", "e", "r", " ", "f", "u", "n",
              "c", "t", "i", "o", "n", " ", "r", "e", "s", "u", "l", "t", "s", ":", " ">>
      [] k = "Serialization" ->
            <<"e", "r", "r", "o", "r", " ", "s", "e", "r", "i", "a", "l", "i", "z", "i",
              "n", "g", " ", "s", "e", "r", "v", "e", "r", " ", "f", "u", "n", "c", "t",
              "i", "o", "n", " ", "a", "r", "g", "u", "m", "e", "n", "t", "s", ":", " ">>
      [] k = "Args" ->
            <<"e", "r", "r", "o", "r", " ", "d", "e", "s", "e", "r", "i", "a", "l", "i",
              "z", "i", "n", "g", " ", "s", "e", "r", "v", "e", "r", " ", "f", "u", "n",
              "c", "t", "i", "o", "n", " ", "a", "r", "g", "u", "m", "e", "n", "t", "s",
              ":", " ">>
      [] k = "MissingArg" ->
            <<"m", "i", "s", "s", "i", "n", "g", " ", "a", "r", "g", "u", "m", "e", "n",
              "t", " ">>
      [] k = "Response" ->
            <<"e", "r", "r", "o", "r", " ", "c", "r", "e", "a", "t", "i", "n", "g", " ",
              "r", "e", "s", "p", "o", "n", "s", "e", " ">>

\* Display of a ServerFnErrorErr (derived by thiserror)
DisplayErr(e) == DisplayPrefix(e.kind) \o e.payload

----------------------------------------------------------------------------
(* The wire codec: impl ServerFnErrorSerde for ServerFnErrorErr *)

Ok(v) == [ok |-> TRUE, val |-> v]

FmtError == [ok |-> FALSE, val |-> <<>>]

\* ser: one write!(buf, "<Tag>|{e}") per variant; writing to a String cannot fail
ser(e) ==
    CASE e.kind = "Registration" -> Ok(TagText("Registration") \o <<"|">> \o e.payload)
      [] e.kind = "Request" -> Ok(TagText("Request") \o <<"|">> \o e.payload)
      [] e.kind = "Response" -> Ok(TagText("Response") \o <<"|">> \o e.payload)
      [] e.kind = "Deserialization" ->
            Ok(TagText("Deserialization") \o <<"|">> \o e.payload)
      [] e.kind = "Serialization" -> Ok(TagText("Serialization") \o <<"|">> \o e.payload)
      [] e.kind = "Args" -> Ok(TagText("Args") \o <<"|">> \o e.payload)
      [] e.kind = "MissingArg" -> Ok(TagText("MissingArg") \o <<"|">> \o e.payload)

\* str::rsplit_once('|'): the split at the last delimiter
rsplit_once(data) ==
    LET i == LastIndex(data, "|")
    IN  IF i = 0 THEN [some |-> FALSE, ty |-> <<>>, rest |-> <<>>]
        ELSE [some |-> TRUE, ty |-> SubSeq(data, 1, i - 1),
              rest |-> SubSeq(data, i + 1, Len(data))]

\* str::split_once('|'): the text before and after the first delimiter
split_once(data) ==
    LET i == FirstIndex(data, "|")
    IN  IF i = 0 THEN [some |-> FALSE, ty |-> <<>>, rest |-> <<>>]
        ELSE [some |-> TRUE, ty |-> SubSeq(data, 1, i - 1),
              rest |-> SubSeq(data, i + 1, Len(data))]

\* the fallback of de with the input written unquoted
DeFallbackPlain(data) ==
    Err("Deserialization",
        <<"C", "o", "u", "l", "d", " ", "n", "o", "t", " ", "d", "e", "s", "e", "r", "i",
          "a", "l", "i", "z", "e", " ", "e", "r", "r", "o", "r", " ">> \o data)

\* the unwrap_or_else of de: format!("Could not deserialize error {data:?}")
DeFallback(data) ==
    Err("Deserialization",
        <<"C", "o", "u", "l", "d", " ", "n", "o", "t", " ", "d", "e", "s", "e", "r", "i",
          "a", "l", "i", "z", "e", " ", "e", "r", "r", "o", "r", " ">> \o DebugStr(data))

\* de: split at the first '|', match the tag, fall back on anything else
de(data) ==
    LET s == split_once(data)
    IN  IF ~s.some THEN DeFallback(data)
        ELSE CASE s.ty = TagText("Registration") -> Err("Registration", s.rest)
               [] s.ty = TagText("Request") -> Err("Request", s.rest)
               [] s.ty = TagText("Response") -> Err("Response", s.rest)
               [] s.ty = TagText("Deserialization") -> Err("Deserialization", s.rest)
               [] s.ty = TagText("Serialization") -> Err("Serialization", s.rest)
               [] s.ty = TagText("Args") -> Err("Args", s.rest)
               [] s.ty = TagText("MissingArg") -> Err("MissingArg", s.rest)
               [] OTHER -> DeFallback(data)

----------------------------------------------------------------------------
(* Percent-encoding, as the url and form_urlencoded crates do it *)

Letters ==
    {"a", "b", "c", "d", "e", "f", "g", "h", "i", "j", "k", "l", "m", "n", "o", "p", "q",
     "r", "s", "t", "u", "v", "w", "x", "y", "z",
     "A", "B", "C", "D", "E", "F", "G", "H", "I", "J", "K", "L", "M", "N", "O", "P", "Q",
     "R", "S", "T", "U", "V", "W", "X", "Y", "Z"}

Digits == {"0", "1", "2", "3", "4", "5", "6", "7", "8", "9"}

HexUpper == <<"0", "1", "2", "3", "4", "5", "6", "7", "8", "9", "A", "B", "C", "D", "E", "F">>

HexLower == <<"0", "1", "2", "3", "4", "5", "6", "7", "8", "9", "a", "b", "c", "d", "e", "f">>

IsHexDigit(c) == \E i \in 1..16 : HexUpper[i] = c \/ HexLower[i] = c

HexVal(c) == (CHOOSE i \in 1..16 : HexUpper[i] = c \/ HexLower[i] = c) - 1

\* the ASCII codes of the characters of the model that are ever percent-encoded
\* or written as an escape in an input
AsciiCodes ==
    {<<"\n", 10>>, <<" ", 32>>, <<"\"", 34>>, <<"#", 35>>, <<"%", 37>>, <<"&", 38>>,
     <<"+", 43>>, <<"/", 47>>, <<":", 58>>, <<"=", 61>>, <<"?", 63>>, <<"_", 95>>,
     <<"|", 124>>}

ByteOf(c) == (CHOOSE ac \in AsciiCodes : ac[1] = c)[2]

CharOf(b) == (CHOOSE ac \in AsciiCodes : ac[2] = b)[1]

PercentEscape(c) == <<"%", HexUpper[(ByteOf(c) \div 16) + 1], HexUpper[(ByteOf(c) % 16) + 1]>>

\* form_urlencoded::byte_serialize: alphanumerics and *-._ stay, a space becomes
\* '+', every other byte becomes %XX
ByteSerialize(c) ==
    IF c \in Letters \cup Digits \cup {"*", "-", ".", "_"} THEN <<c>>
    ELSE IF c = " " THEN <<"+">>
    ELSE PercentEscape(c)

FormEncode(s) == Concat([i \in 1..Len(s) |-> ByteSerialize(s[i])])

RECURSIVE PercentDecodeFrom(_, _)
\* percent_decode from position i on: %XX with two hex digits is one byte, any
\* other '%' stands for itself
PercentDecodeFrom(s, i) ==
    IF i > Len(s) THEN <<>>
    ELSE IF s[i] = "%" /\ i + 2 <= Len(s) /\ IsHexDigit(s[i + 1]) /\ IsHexDigit(s[i + 2])
         THEN <<CharOf(16 * HexVal(s[i + 1]) + HexVal(s[i + 2]))>>
                  \o PercentDecodeFrom(s, i + 3)
         ELSE <<s[i]>> \o PercentDecodeFrom(s, i + 1)

\* form_urlencoded's decode: '+' is a space, then percent-decoding
FormDecode(s) ==
    PercentDecodeFrom([i \in 1..Len(s) |-> IF s[i] = "+" THEN " " ELSE s[i]], 1)

\* the url parser's query state: the characters of the query encode set are
\* percent-encoded as the query is stored
QueryStore(s) ==
    Concat([i \in 1..Len(s) |->
              IF s[i] \in {" ", "\""} THEN PercentEscape(s[i]) ELSE <<s[i]>>])

----------------------------------------------------------------------------
(* Url: parse, query_pairs, query_pairs_mut, to_string *)

None == [some |-> FALSE, text |-> <<>>]

Some(s) == [some |-> TRUE, text |-> s]

NoUrl == [ok |-> FALSE, prefix |-> <<>>, query |-> None, fragment |-> None]

\* the parser's scheme state: a letter, then letters, digits, '+', '-', '.', up to
\* a ':'; a string with no scheme is a relative URL without a base, an error
HasScheme(s) ==
    LET i == FirstIndex(s, ":")
    IN  /\ i > 1
        /\ s[1] \in Letters
        /\ \A j \in 2..(i - 1) : s[j] \in Letters \cup Digits \cup {"+", "-", "."}

\* Url::parse: the fragment follows the first '#', the query the first '?' before it
UrlParse(s) ==
    IF ~HasScheme(s) THEN NoUrl
    ELSE LET f == FirstIndex(s, "#")
             head == IF f = 0 THEN s ELSE SubSeq(s, 1, f - 1)
             q == FirstIndex(head, "?")
         IN  [ok |-> TRUE,
              prefix |-> IF q = 0 THEN head ELSE SubSeq(head, 1, q - 1),
              query |-> IF q = 0 THEN None
                        ELSE Some(QueryStore(SubSeq(head, q + 1, Len(head)))),
              fragment |-> IF f = 0 THEN None ELSE Some(SubSeq(s, f + 1, Len(s)))]

\* Url's Display
UrlToString(u) ==
    u.prefix
      \o (IF u.query.some THEN <<"?">> \o u.query.text ELSE <<>>)
      \o (IF u.fragment.some THEN <<"#">> \o u.fragment.text ELSE <<>>)

RECURSIVE SplitOn(_, _)
\* str::split(c): the pieces between the occurrences of c
SplitOn(s, c) ==
    LET i == FirstIndex(s, c)
    IN  IF i = 0 THEN <<s>>
        ELSE <<SubSeq(s, 1, i - 1)>> \o SplitOn(SubSeq(s, i + 1, Len(s)), c)

\* one "name=value" piece of a query, decoded; a piece with no '=' has no value
ParsePair(piece) ==
    LET i == FirstIndex(piece, "=")
    IN  IF i = 0 THEN <<FormDecode(piece), <<>>>>
        ELSE <<FormDecode(SubSeq(piece, 1, i - 1)),
               FormDecode(SubSeq(piece, i + 1, Len(piece)))>>

\* form_urlencoded::parse: split at '&', skip the empty pieces, decode each
FormParse(text) ==
    LET pieces == SelectSeq(SplitOn(text, "&"), LAMBDA p : p # <<>>)
    IN  [i \in 1..Len(pieces) |-> ParsePair(pieces[i])]

\* Url::query_pairs: the decoded pairs of the query, none when there is no query
query_pairs(u) == IF u.query.some THEN FormParse(u.query.text) ELSE <<>>

\* Serializer::append_pair: a '&' unless the query is still empty, then the
\* encoded name, '=', the encoded value
append_pair(text, key, value) ==
    (IF text # <<>> THEN text \o <<"&">> ELSE text)
      \o FormEncode(key) \o <<"=">> \o FormEncode(value)

RECURSIVE AppendAll(_, _)
AppendAll(text, pairs) ==
    IF pairs = <<>> THEN text
    ELSE AppendAll(append_pair(text, Head(pairs)[1], Head(pairs)[2]), Tail(pairs))

\* Url::query_pairs_mut: a URL with no query gets an empty one
QueryText(u) == IF u.query.some THEN u.query.text ELSE <<>>

----------------------------------------------------------------------------
(* Error values of an application's error type (trait CustomServerFnError) *)

\* besides the taxonomy itself: an application type whose ser writes its text,
\* and one whose ser returns Err(fmt::Error)
CustomKinds == {"Custom", "CustomUnser"}

\* ServerFnErrorSerde::ser of any error type
SerOf(e) ==
    IF e.kind \in Variants THEN ser(e)
    ELSE IF e.kind = "Custom" THEN Ok(e.payload)
    ELSE FmtError

\* Display of any error type
DisplayOf(e) == IF e.kind \in Variants THEN DisplayErr(e) ELSE e.payload

\* Result::unwrap_or_default on the result of ser
UnwrapOrDefault(r) == IF r.ok THEN r.val ELSE <<>>

----------------------------------------------------------------------------
(* The URL error channel: ServerFnUrlError *)

STR_PATH == <<"_", "_", "p", "a", "t", "h">>

STR_ERR == <<"_", "_", "e", "r", "r">>

\* a to_url that sets the query to the two parameters alone
to_url_set_query(path, error, base) ==
    LET u == UrlParse(base)
    IN  IF ~u.ok THEN NoUrl
        ELSE [u EXCEPT !.query =
                Some(append_pair(append_pair(<<>>, STR_PATH, path),
                                 STR_ERR, UnwrapOrDefault(SerOf(error))))]

\* to_url: parse the base, append __path and __err
to_url(path, error, base) ==
    LET u == UrlParse(base)
    IN  IF ~u.ok THEN NoUrl
        ELSE [u EXCEPT !.query =
                Some(append_pair(append_pair(QueryText(u), STR_PATH, path),
                                 STR_ERR, UnwrapOrDefault(SerOf(error))))]

\* a filter that drops only the __path pairs
KeepPairPathOnly(pair) == pair[1] # STR_PATH

\* the filter of strip_error_info
KeepPair(pair) == pair[1] # STR_PATH /\ pair[1] # STR_ERR

\* strip_error_info: the string is rewritten only if it parses as a URL
strip_error_info(path) ==
    LET u == UrlParse(path)
    IN  IF ~u.ok THEN path
        ELSE LET pairs_previously == query_pairs(u)
             IN  UrlToString(
                     [u EXCEPT !.query =
                        Some(AppendAll(<<>>, SelectSeq(pairs_previously, KeepPair)))])

----------------------------------------------------------------------------
(* Inputs of the URL channel *)

\* pieces of a query: plain pairs, the two error parameters, an error parameter
\* written with escapes, and a piece with no '=' holding a space and a '+',
\* after an empty piece
Segments ==
    {<<"a", "=", "1">>,
     <<"b", "=", "2">>,
     <<"_", "_", "p", "a", "t", "h", "=", "p">>,
     <<"_", "_", "e", "r", "r", "=", "e">>,
     <<"%", "5", "F", "%", "5", "f", "e", "r", "r", "=", "%", "7", "c">>,
     <<"&", "c", " ", "d", "+">>}

RECURSIVE JoinAmp(_)
JoinAmp(ss) ==
    IF ss = <<>> THEN <<>>
    ELSE IF Len(ss) = 1 THEN Head(ss)
    ELSE Head(ss) \o <<"&">> \o JoinAmp(Tail(ss))

Queries(n) == {JoinAmp(ss) : ss \in UNION {[1..k -> Segments] : k \in 0..n}}

UrlPrefix == <<"h", "t", "t", "p", ":", "/", "/", "h", "/", "p">>

\* URLs with no query or with a query of up to n pieces
UrlTexts(n) == {UrlPrefix} \cup {UrlPrefix \o <<"?">> \o q : q \in Queries(n)}

\* the same with a fragment
WithFragment(urls) == {u \o <<"#", "f">> : u \in urls}

\* strings that are no URL: relative references and free text
NotUrls ==
    {<<>>, <<"/", "p">>, <<"/", "p", "?", "_", "_", "e", "r", "r", "=", "e">>,
     <<"a", " ", "b">>, <<":", "a">>}

BaseStrings == UrlTexts(MaxBasePairs) \cup WithFragment(UrlTexts(MaxBasePairs)) \cup NotUrls

NavStrings == UrlTexts(MaxPairs) \cup BaseStrings

CallPaths == {<<"/", "f">>, <<"a", "&", "b", "=", "\n">>}

UrlErrors ==
    {Err("Request", <<"a">>), Err("Args", <<"|", "\"">>), Err("MissingArg", <<>>),
     Err("Custom", <<"o", "o", "p", "s">>), Err("CustomUnser", <<"b", "a", "d">>)}

----------------------------------------------------------------------------
(* The URL channel at work *)

UrlInit ==
    /\ uPhase = "idle"
    /\ uBase = <<>>
    /\ uPath = <<>>
    /\ uErr = NoError
    /\ navUrl = <<>>
    /\ uPrev = <<>>

\* the browser is at some location
Navigate(s) ==
    /\ uPhase = "idle"
    /\ uPhase' = "set"
    /\ navUrl' = s
    /\ uBase' = <<>>
    /\ uPath' = <<>>
    /\ uErr' = NoError
    /\ uPrev' = <<>>
    /\ UNCHANGED notUrl

\* the server attaches an error to a base URL and redirects there
ToUrl(path, error, base) ==
    LET r == to_url(path, error, base)
    IN  /\ uPhase = "idle"
        /\ uPhase' = IF r.ok THEN "attached" ELSE "parseError"
        /\ navUrl' = IF r.ok THEN UrlToString(r) ELSE navUrl
        /\ uBase' = base
        /\ uPath' = path
        /\ uErr' = error
        /\ uPrev' = <<>>
        /\ UNCHANGED notUrl

\* the client strips the error parameters from its location
StripErrorInfo ==
    /\ uPhase \in {"set", "attached"}
    /\ uPhase' = IF uPhase = "attached" THEN "attachedStripped" ELSE "stripped"
    /\ uPrev' = navUrl
    /\ navUrl' = strip_error_info(navUrl)
    /\ UNCHANGED <<uBase, uPath, uErr>>
    /\ UNCHANGED notUrl

UrlNext ==
    \/ \E s \in NavStrings : Navigate(s)
    \/ \E path \in CallPaths, error \in UrlErrors, base \in BaseStrings :
          ToUrl(path, error, base)
    \/ StripErrorInfo

----------------------------------------------------------------------------
(* Inputs of the codec *)

\* texts that look like a tag and are none
NearTags ==
    {<<"R", "e", "q">>, <<"r", "e", "q", "u", "e", "s", "t">>, <<"A", "r", "g", "s", " ">>}

\* what may arrive as an encoded error: free text, every documented tag with and
\* without the delimiter, and near misses of a tag
WireInputs ==
    Payloads
      \cup {TagText(k) \o <<"|">> \o p : k \in DocumentedTags, p \in Payloads}
      \cup {TagText(k) : k \in DocumentedTags}
      \cup {t \o <<"|">> \o p : t \in NearTags, p \in Payloads}

----------------------------------------------------------------------------
(* The codec at work: an error is encoded, a text is decoded *)

CodecInit ==
    /\ cPhase = "idle"
    /\ cErr = NoError
    /\ cData = <<>>
    /\ cOut = NoError

\* the sending side encodes an error of the taxonomy
Encode(e) ==
    /\ ser(e).ok
    /\ cPhase' = "encoded"
    /\ cErr' = e
    /\ cData' = ser(e).val
    /\ cOut' = NoError
    /\ UNCHANGED notCodec

\* the receiving side decodes the text that was just encoded
DecodeSent ==
    /\ cPhase = "encoded"
    /\ cPhase' = "roundtrip"
    /\ cOut' = de(cData)
    /\ UNCHANGED <<cErr, cData>>
    /\ UNCHANGED notCodec

\* the receiving side decodes whatever text arrived
DecodeText(data) ==
    /\ cPhase' = "decoded"
    /\ cErr' = NoError
    /\ cData' = data
    /\ cOut' = de(data)
    /\ UNCHANGED notCodec

CodecNext ==
    \/ \E e \in TaxonomyErrors : Encode(e)
    \/ DecodeSent
    \/ \E data \in WireInputs : DecodeText(data)

----------------------------------------------------------------------------
(* The outbound response: impl Res for http::Response<Body> *)

SERVER_FN_ERROR_HEADER == "serverfnerror"

LOCATION == "location"

CONTENT_TYPE == "content-type"

INTERNAL_SERVER_ERROR == 500

FOUND == 302

STATUS_OK == 200

\* HeaderValue::from_str accepts a byte b when b >= 32 && b != 127 || b == '\t':
\* of the characters of the model, the line breaks are the ones refused
HeaderValueOk(s) == \A i \in 1..Len(s) : s[i] \notin {"\n", "\r"}

NoResponse == [status |-> 0, headers |-> <<>>, body |-> <<>>]

\* the message of http::Error for a refused header value
InvalidHeaderText ==
    <<"f", "a", "i", "l", "e", "d", " ", "t", "o", " ", "p", "a", "r", "s", "e", " ", "h",
      "e", "a", "d", "e", "r", " ", "v", "a", "l", "u", "e">>

\* try_from_string / try_from_bytes: a 200 response with the content type, or a
\* Response error when the builder refuses the header
try_from_string(content_type, data) ==
    IF HeaderValueOk(content_type)
    THEN [ok |-> TRUE,
          res |-> [status |-> STATUS_OK,
                   headers |-> <<<<CONTENT_TYPE, content_type>>>>,
                   body |-> data],
          err |-> NoError]
    ELSE [ok |-> FALSE, res |-> NoResponse, err |-> Err("Response", InvalidHeaderText)]

\* err.ser().unwrap_or_else(|_| err.to_string())
SerOrDisplay(e) == IF SerOf(e).ok THEN SerOf(e).val ELSE DisplayOf(e)

\* error_response: the builder keeps the error of a refused header value, body()
\* returns it, and unwrap() panics on it
error_response(path, err) ==
    IF HeaderValueOk(path)
    THEN [panicked |-> FALSE,
          res |-> [status |-> INTERNAL_SERVER_ERROR,
                   headers |-> <<<<SERVER_FN_ERROR_HEADER, path>>>>,
                   body |-> SerOrDisplay(err)]]
    ELSE [panicked |-> TRUE, res |-> NoResponse]

\* HeaderMap::append: the value is added to those the name already has
HeaderAppend(headers, name, value) == Append(headers, <<name, value>>)

\* HeaderMap::insert: the value replaces those the name already has
HeaderInsert(headers, name, value) ==
    Append(SelectSeq(headers, LAMBDA h : h[1] # name), <<name, value>>)

\* a redirect that adds a Location header to those already there
redirect_appending(res, path) ==
    IF HeaderValueOk(path)
    THEN [res EXCEPT !.headers = HeaderAppend(res.headers, LOCATION, path),
                     !.status = FOUND]
    ELSE res

\* redirect: only when the target is a header value
redirect(res, path) ==
    IF HeaderValueOk(path)
    THEN [res EXCEPT !.headers = HeaderInsert(res.headers, LOCATION, path),
                     !.status = FOUND]
    ELSE res

ContentTypes == {<<"t">>, <<"t", "\n">>}

HeaderTexts == {<<>>, <<"/", "f">>, <<"/", "g", "\t">>, <<"\n">>, <<"/", "f", "\n">>}

HttpErrors ==
    {Err(k, p) : k \in {"Request", "Args"}, p \in Payloads}
      \cup {Err("Custom", <<"o", "o", "p", "s">>), Err("CustomUnser", <<"b", "a", "d">>)}

HttpInit ==
    /\ hPhase = "idle"
    /\ response = NoResponse
    /\ hPrev = NoResponse
    /\ hArg = <<>>
    /\ hErr = NoError

\* a server function returned a string
TryFromString(content_type, data) ==
    LET r == try_from_string(content_type, data)
    IN  /\ hPhase = "idle"
        /\ hPhase' = IF r.ok THEN "built" ELSE "buildFailed"
        /\ response' = r.res
        /\ hErr' = r.err
        /\ hArg' = content_type
        /\ UNCHANGED hPrev
        /\ UNCHANGED notHttp

\* a server function returned an error
ErrorResponse(path, err) ==
    LET r == error_response(path, err)
    IN  /\ hPhase = "idle"
        /\ hPhase' = IF r.panicked THEN "panicked" ELSE "errorBuilt"
        /\ response' = r.res
        /\ hErr' = err
        /\ hArg' = path
        /\ UNCHANGED hPrev
        /\ UNCHANGED notHttp

\* the response is turned into a redirect
Redirect(path) ==
    /\ hPhase \in {"built", "errorBuilt", "redirected"}
    /\ hPhase' = "redirected"
    /\ hPrev' = response
    /\ response' = redirect(response, path)
    /\ hArg' = path
    /\ UNCHANGED hErr
    /\ UNCHANGED notHttp

HttpNext ==
    \/ \E ct \in ContentTypes, data \in Payloads : TryFromString(ct, data)
    \/ \E path \in HeaderTexts, err \in HttpErrors : ErrorResponse(path, err)
    \/ \E path \in HeaderTexts : Redirect(path)

----------------------------------------------------------------------------
(* The inbound response: impl ClientRes for reqwest::Response *)

Chunks == {<<"a">>, <<"b", "c">>}

Bodies == UNION {[1..k -> Chunks] : k \in 0..MaxChunks}

\* the text of the transport's error
TransportErrorText == <<"r", "e", "s", "e", "t">>

NoResult == [kind |-> "none", val |-> <<>>, err |-> NoError]

\* text().await / bytes().await: the whole body, or the transport's error as a
\* Deserialization error
ReadAll(body, failAt) ==
    IF failAt = 0 THEN [kind |-> "data", val |-> Concat(body), err |-> NoError]
    ELSE [kind |-> "error", val |-> <<>>,
          err |-> Err("Deserialization", TransportErrorText)]

ClientInit ==
    /\ rHeld = FALSE
    /\ rBody = <<>>
    /\ rFailAt = 0
    /\ rResult = NoResult
    /\ rYielded = <<>>
    /\ rCalls = 0
    /\ rDelivered = 0

\* a response arrives; the transport will fail before chunk failAt (0: never)
Receive(body, failAt) ==
    /\ ~rHeld /\ rCalls = 0
    /\ rHeld' = TRUE
    /\ rBody' = body
    /\ rFailAt' = failAt
    /\ UNCHANGED <<rResult, rYielded, rCalls, rDelivered>>
    /\ UNCHANGED notClient

\* what a call on &self would leave of the caller's response
Borrowed(held) == held

\* what a consuming call leaves of the caller's response: the call takes self
MovedOut(held) == FALSE

\* try_into_string(self)
TryIntoString ==
    /\ rHeld
    /\ rHeld' = MovedOut(rHeld)
    /\ rResult' = ReadAll(rBody, rFailAt)
    /\ rCalls' = rCalls + 1
    /\ rDelivered' = rDelivered + (IF rFailAt = 0 THEN 1 ELSE 0)
    /\ UNCHANGED <<rBody, rFailAt, rYielded>>
    /\ UNCHANGED notClient

\* try_into_bytes(self)
TryIntoBytes ==
    /\ rHeld
    /\ rHeld' = MovedOut(rHeld)
    /\ rResult' = [ReadAll(rBody, rFailAt) EXCEPT !.kind =
                      IF @ = "data" THEN "bytes" ELSE @]
    /\ rCalls' = rCalls + 1
    /\ rDelivered' = rDelivered + (IF rFailAt = 0 THEN 1 ELSE 0)
    /\ UNCHANGED <<rBody, rFailAt, rYielded>>
    /\ UNCHANGED notClient

\* try_into_stream(self): always Ok, the body is read as the stream is polled
TryIntoStream ==
    /\ rHeld
    /\ rHeld' = MovedOut(rHeld)
    /\ rResult' = [kind |-> "stream", val |-> <<>>, err |-> NoError]
    /\ rCalls' = rCalls + 1
    /\ rDelivered' = rDelivered + 1
    /\ rYielded' = <<>>
    /\ UNCHANGED <<rBody, rFailAt>>
    /\ UNCHANGED notClient

\* the stream is polled: the next chunk, or the transport's error as a Response
\* error, after which the stream has ended
StreamNext ==
    /\ rResult.kind = "stream"
    /\ Len(rYielded) < Len(rBody)
    /\ IF rFailAt = Len(rYielded) + 1
       THEN /\ rResult' = [kind |-> "streamError", val |-> <<>>,
                           err |-> Err("Response", TransportErrorText)]
            /\ UNCHANGED rYielded
       ELSE /\ rYielded' = Append(rYielded, rBody[Len(rYielded) + 1])
            /\ UNCHANGED rResult
    /\ UNCHANGED <<rHeld, rBody, rFailAt, rCalls, rDelivered>>
    /\ UNCHANGED notClient

ClientNext ==
    \/ \E body \in Bodies, failAt \in 0..MaxChunks :
          failAt <= Len(body) /\ Receive(body, failAt)
    \/ TryIntoString
    \/ TryIntoBytes
    \/ TryIntoStream
    \/ StreamNext

----------------------------------------------------------------------------
(* The error-wrapping entry point: server_fn_error! and ViaError *)

\* the number of references the macro puts on WrapError(error)
MacroRefs == 2

\* the values given to the macro: an error of the taxonomy, a String, a value
\* that is Display and not Clone, and ()
Value(ty, e, text) == [ty |-> ty, err |-> e, text |-> text]

WrapInputs ==
    {Value("ServerFnErrorErr", e, <<>>) : e \in TaxonomyErrors}
      \cup {Value("String", NoError, p) : p \in Payloads}
      \cup {Value("DisplayOnly", NoError, p) : p \in Payloads}
      \cup {Value("Unit", NoError, <<>>)}

\* ServerFnErrorErr derives Clone and (through thiserror) Display
IsDisplay(v) == v.ty \in {"ServerFnErrorErr", "String", "DisplayOnly"}

IsClone(v) == v.ty \in {"ServerFnErrorErr", "String", "Unit"}

to_string(v) == IF v.ty = "ServerFnErrorErr" THEN DisplayErr(v.err) ELSE v.text

\* the three impls of ViaError, each with the number of references of its Self
\* type around WrapError
ImplRefs == {4, 1, 0}

ImplApplies(refs, v) ==
    CASE refs = 4 -> v.ty = "ServerFnErrorErr"
      [] refs = 1 -> IsDisplay(v) /\ IsClone(v)
      [] refs = 0 -> TRUE

ImplBody(refs, v) ==
    CASE refs = 4 -> [panicked |-> FALSE, err |-> v.err]
      [] refs = 1 -> [panicked |-> FALSE, err |-> Err("ServerError", to_string(v))]
      [] refs = 0 -> [panicked |-> TRUE, err |-> NoError]

RECURSIVE Probe(_, _)
\* method lookup on a receiver with d references: to_server_error takes &self, so
\* by value the receiver is &Self of the impl with d - 1 references, and with one
\* auto-reference of the impl with d; failing both, the receiver is dereferenced
Probe(d, v) ==
    IF d - 1 \in ImplRefs /\ ImplApplies(d - 1, v) THEN ImplBody(d - 1, v)
    ELSE IF d \in ImplRefs /\ ImplApplies(d, v) THEN ImplBody(d, v)
    ELSE Probe(d - 1, v)

\* server_fn_error!(error): (&&WrapError(error)).to_server_error()
server_fn_error(v) == Probe(MacroRefs, v)

WrapInit ==
    /\ wPhase = "idle"
    /\ wIn = Value("Unit", NoError, <<>>)
    /\ wOut = NoError

ToServerError(v) ==
    LET r == server_fn_error(v)
    IN  /\ wPhase = "idle"
        /\ wPhase' = IF r.panicked THEN "panicked" ELSE "returned"
        /\ wIn' = v
        /\ wOut' = r.err
        /\ UNCHANGED notWrap

WrapNext == \E v \in WrapInputs : ToServerError(v)

----------------------------------------------------------------------------
(* Specifications: one per component, the other components at rest *)

Init == CodecInit /\ UrlInit /\ HttpInit /\ ClientInit /\ WrapInit

SpecCodec == Init /\ [][CodecNext]_vars

SpecUrl == Init /\ [][UrlNext]_vars

SpecHttp == Init /\ [][HttpNext]_vars

SpecClient == Init /\ [][ClientNext]_vars

SpecWrap == Init /\ [][WrapNext]_vars

\* the whole program: the components share no state, so each is checked under
\* its own specification
Next == CodecNext \/ UrlNext \/ HttpNext \/ ClientNext \/ WrapNext

Spec == Init /\ [][Next]_vars

----------------------------------------------------------------------------
(* Properties of the wire codec, under SpecCodec *)

HasKnownTag(data) ==
    \E k \in Variants :
        /\ Len(data) > Len(TagText(k))
        /\ SubSeq(data, 1, Len(TagText(k)) + 1) = TagText(k) \o <<"|">>

\* C2: total decode. A text that is not "<known tag>|<payload>" decodes, without
\* failing, to Deserialization("Could not deserialize error " + the whole text
\* in Debug form).
C2_TotalDecode ==
    (cPhase = "decoded" /\ ~HasKnownTag(cData)) =>
        /\ cOut.kind = "Deserialization"
        /\ cOut.payload =
              <<"C", "o", "u", "l", "d", " ", "n", "o", "t", " ", "d", "e", "s", "e", "r",
                "i", "a", "l", "i", "z", "e", " ", "e", "r", "r", "o", "r", " ">>
                \o DebugStr(cData)

\* a text with an unknown tag, a delimiter and a quote was decoded to the fallback
C2_Witness ==
    /\ cPhase = "decoded"
    /\ cData = <<"R", "e", "q", "|", "\"", "a">>
    /\ cOut.kind = "Deserialization"
    /\ cOut.payload =
          <<"C", "o", "u", "l", "d", " ", "n", "o", "t", " ", "d", "e", "s", "e", "r",
            "i", "a", "l", "i", "z", "e", " ", "e", "r", "r", "o", "r", " ",
            "\"", "R", "e", "q", "|", "\\", "\"", "a", "\"">>

\* C3: the tag set is the eight documented tags. For each of them, T, and any
\* payload p, "T|p" decodes to the variant T with payload p, and that variant
\* encodes to "T|p" again.
C3_EightTags ==
    cPhase = "decoded" =>
        \A k \in DocumentedTags, p \in Payloads :
            cData = TagText(k) \o <<"|">> \o p =>
                /\ cOut = Err(k, p)
                /\ ser(cOut) = Ok(cData)

----------------------------------------------------------------------------
(* Properties of the URL channel, under SpecUrl *)

IsErrorInfoKey(key) ==
    key = <<"_", "_", "p", "a", "t", "h">> \/ key = <<"_", "_", "e", "r", "r">>

WithoutErrorInfo(pairs) == SelectSeq(pairs, LAMBDA pr : ~IsErrorInfoKey(pr[1]))

PairsOf(text) == query_pairs(UrlParse(text))

\* C5: selective stripping. Of a string that parses as a URL, strip_error_info
\* leaves a URL whose query pairs are the original pairs without those whose key
\* is __path or __err, the others as they were and in their order.
C5_SelectiveStrip ==
    (uPhase \in {"stripped", "attachedStripped"} /\ UrlParse(uPrev).ok) =>
        /\ UrlParse(navUrl).ok
        /\ PairsOf(navUrl) = WithoutErrorInfo(PairsOf(uPrev))

\* the URL with the pairs [a=1, __path=p, b=2, __err=e] was stripped to [a=1, b=2]
C5_Witness ==
    /\ uPhase = "stripped"
    /\ PairsOf(uPrev) =
          <<<<<<"a">>, <<"1">>>>, <<<<"_", "_", "p", "a", "t", "h">>, <<"p">>>>,
            <<<<"b">>, <<"2">>>>, <<<<"_", "_", "e", "r", "r">>, <<"e">>>>>>
    /\ PairsOf(navUrl) = <<<<<<"a">>, <<"1">>>>, <<<<"b">>, <<"2">>>>>>

\* C6 as stated: stripping what to_url built gives back the query pairs of the
\* base, for every base.
C6_RoundTripAnyBase ==
    uPhase = "attachedStripped" => PairsOf(navUrl) = PairsOf(uBase)

\* C6 as amended: stripping what to_url built gives back the query pairs of the
\* base without its own __path and __err pairs; so exactly the pairs of the
\* base when it has no such pair.
C6_RoundTrip ==
    uPhase = "attachedStripped" =>
        /\ PairsOf(navUrl) = WithoutErrorInfo(PairsOf(uBase))
        /\ (\A i \in 1..Len(PairsOf(uBase)) : ~IsErrorInfoKey(PairsOf(uBase)[i][1]))
              => PairsOf(navUrl) = PairsOf(uBase)

\* a base with the pairs [a=1, b=2] had an error attached and stripped again
C6_Witness ==
    /\ uPhase = "attachedStripped"
    /\ PairsOf(uBase) = <<<<<<"a">>, <<"1">>>>, <<<<"b">>, <<"2">>>>>>
    /\ Len(PairsOf(uPrev)) = 4
    /\ PairsOf(navUrl) = PairsOf(uBase)

\* C7: to_url appends __path = the call path and __err = the encoded error, and
\* when ser fails __err is the error's Display text.
C7_AttachFallsBack ==
    uPhase = "attached" =>
        PairsOf(navUrl) =
            PairsOf(uBase)
              \o <<<<STR_PATH, uPath>>,
                   <<STR_ERR, IF SerOf(uErr).ok THEN SerOf(uErr).val ELSE DisplayOf(uErr)>>>>

----------------------------------------------------------------------------
(* Properties of the outbound response, under SpecHttp *)

HeaderValues(res, name) ==
    LET hs == SelectSeq(res.headers, LAMBDA h : h[1] = name)
    IN  [i \in 1..Len(hs) |-> hs[i][2]]

OtherHeaders(res, name) == SelectSeq(res.headers, LAMBDA h : h[1] # name)

\* C4: error_response always succeeds. For every path and error it returns,
\* without panicking, a response with status 500, the serverfnerror header equal
\* to the path, and the encoded error as its body.
C4_ErrorResponseTotal ==
    hPhase \in {"errorBuilt", "panicked"} =>
        /\ hPhase = "errorBuilt"
        /\ response.status = 500
        /\ HeaderValues(response, "serverfnerror") = <<hArg>>
        /\ SerOf(hErr).ok => response.body = SerOf(hErr).val

\* C8: redirect is best-effort. With a target that is a header value the
\* response gets status 302 and exactly one Location header, equal to the
\* target, its body and other headers as before; with any other target the
\* response is as before.
C8_Redirect ==
    hPhase = "redirected" =>
        IF \A i \in 1..Len(hArg) : hArg[i] \notin {"\n", "\r"}
        THEN /\ response.status = 302
             /\ HeaderValues(response, "location") = <<hArg>>
             /\ response.body = hPrev.body
             /\ OtherHeaders(response, "location") = OtherHeaders(hPrev, "location")
        ELSE response = hPrev

\* a response that was already a redirect was redirected to another target
C8_Witness ==
    /\ hPhase = "redirected"
    /\ hPrev.status = 302
    /\ HeaderValues(hPrev, "location") = <<<<"/", "g", "\t">>>>
    /\ hArg = <<"/", "f">>
    /\ HeaderValues(response, "location") = <<<<"/", "f">>>>
    /\ Len(response.headers) = 2

----------------------------------------------------------------------------
(* Properties of the inbound response, under SpecClient *)

----------------------------------------------------------------------------
(* Properties of the error-wrapping entry point, under SpecWrap *)

\* C10: ordered capability matching. A value that is already an error of the
\* taxonomy comes back as an equal clone; otherwise a value that is Display and
\* Clone comes back as ServerError(its text); otherwise the call panics.
C10_OrderedDispatch ==
    wPhase # "idle" =>
        IF wIn.ty = "ServerFnErrorErr"
        THEN wPhase = "returned" /\ wOut = wIn.err
        ELSE IF wIn.ty = "String"
        THEN wPhase = "returned" /\ wOut = Err("ServerError", wIn.text)
        ELSE wPhase = "panicked"

====
